---------------------------- MODULE Spec2Model ----------------------------
(***************************************************************************)
(* A model of go/modules/shadertoyinterop.py:                              *)
(*   - ShadertoyRenderer.create_numpy_view / render_to_shared_memory:      *)
(*     the self-describing shared-memory block, byte for byte;             *)
(*   - ShadertoyRenderer.render_frame_sequence: the frame loop;            *)
(*   - UpdatableChannelTexture: construction, bind_texture, update.        *)
(* Each of the three parts has a specification of its own (SpecShm,        *)
(* SpecSeq, SpecTex); the variables of the other parts stay at rest.       *)
(*                                                                         *)
(* Conventions.  Python offsets and indices are 0-based, TLA+ sequences    *)
(* are 1-based: the byte at offset k of a buffer is buf[k+1].  numpy's     *)
(* native byte order is taken to be little-endian (x86-64, aarch64).       *)
(* Floating-point times are modelled by exact rationals <<num, den>>; the  *)
(* times given are multiples of 1/2 and fps is a whole number, so that     *)
(* (end_time - start_time) * fps is exact in binary floating point too.    *)
(***************************************************************************)
EXTENDS Integers, Sequences, FiniteSets, TLC

VARIABLES
    \* ---- shared-memory transport
    hdr,          \* what the block's creator declared: rank, shape, dtype, endian
    shm,          \* shm.buf: the block's bytes
    frame,        \* the frame render_frame returned to the last call
    shmPre,       \* shm.buf as it was when the last call started
    shmResult,    \* how the last render_to_shared_memory call ended
    \* ---- render_frame_sequence
    seqArgs,      \* start_time, end_time, fps, mouse_path of the call
    seqPc,        \* position in render_frame_sequence
    frame_count,  \* local of render_frame_sequence
    time_delta,   \* local of render_frame_sequence (a rational)
    idx,          \* the loop variable i
    calls,        \* the render_frame calls issued so far (= frames appended)
    \* ---- UpdatableChannelTexture
    texPc,        \* "new", "live" (constructed), "ctor_failed"
    ctorArgs,     \* the arguments __init__ was called with
    data,         \* self.data (<<>> while there is no adapter)
    format,       \* self.format
    texture,      \* self._texture: None or a GPU texture handle
    gpu,          \* pixel contents of the GPU texture self._texture names
    created,      \* number of device.create_texture calls so far
    lastOp,       \* the last bind_texture / update call and how it ended
    pre,          \* self._texture and gpu when the last call started
    lastUpdate    \* new_data of the last successful update, or None

shmVars == <<hdr, shm, frame, shmPre, shmResult>>
seqVars == <<seqArgs, seqPc, frame_count, time_delta, idx, calls>>
texVars == <<texPc, ctorArgs, data, format, texture, gpu, created, lastOp, pre, lastUpdate>>
vars == <<shmVars, seqVars, texVars>>

\* Python's None, and a value that is not None.  Every optional value of the
\* model is a sequence (a list, an image, a (width, height) pair, a handle).
None == [some |-> FALSE, val |-> <<>>]
Some(v) == [some |-> TRUE, val |-> v]

-----------------------------------------------------------------------------
(* Bounds of the model.                                                    *)

\* largest height and width of a rendered frame, and of a declared axis
MaxDim == 2
\* largest start_time / end_time, in units of 1/TimeDen seconds
MaxTime == 3
\* largest fps
MaxFps == 3
\* longest mouse_path
MaxPath == 3
\* largest height and width of a texture
MaxTexDim == 2

-----------------------------------------------------------------------------
(* Program constants.                                                      *)

\* a frame is (height, width, 4)
FrameRank == 3
Channels == 4
\* bytes of the rank field and of each shape field (np.uint32)
U32Size == 4
\* bytes of the dtype-name field
DtypeFieldLen == 16
\* bytes of the endianness field
EndianFieldLen == 1

-----------------------------------------------------------------------------
(* Arithmetic and sequence helpers.                                        *)

RECURSIVE Product(_)
Product(s) == IF s = <<>> THEN 1 ELSE Head(s) * Product(Tail(s))

RECURSIVE Concat(_)
Concat(ss) == IF ss = <<>> THEN <<>> ELSE Head(ss) \o Concat(Tail(ss))

Max(a, b) == IF a >= b THEN a ELSE b

\* Python slice buf[a:b] (0-based, end exclusive, clipped to the buffer)
Slice(buf, a, b) == SubSeq(buf, a + 1, IF b <= Len(buf) THEN b ELSE Len(buf))

-----------------------------------------------------------------------------
(* numpy: element types.                                                   *)

\* ASCII codes of the dtype names "uint8" and "float32"
U8Name == <<117, 105, 110, 116, 56>>
F32Name == <<102, 108, 111, 97, 116, 51, 50>>

\* np.dtype(name): the element type a name denotes
NpDtype(name) ==
    IF name = U8Name THEN [kind |-> "u", itemsize |-> 1]
    ELSE IF name = F32Name THEN [kind |-> "f", itemsize |-> 4]
    ELSE [kind |-> "TypeError", itemsize |-> 0]

\* floor(log2(v)) for v >= 1
RECURSIVE Log2(_)
Log2(v) == IF v <= 1 THEN 0 ELSE 1 + Log2(v \div 2)

\* little-endian bytes of an unsigned 32-bit value
U32LE(n) == << n % 256, (n \div 256) % 256, (n \div 65536) % 256, (n \div 16777216) % 256 >>

\* IEEE-754 binary32 bit pattern of the integer v, 0 <= v < 2^24: sign 0,
\* biased exponent 127 + e in bits 23..30, the fraction in bits 0..22
F32Bits(v) ==
    IF v = 0 THEN 0
    ELSE LET e == Log2(v)
         IN  (127 + e) * 2^23 + (v - 2^e) * 2^(23 - e)

\* the bytes np.copyto stores for the uint8 value v in an element of type dt
EncodeElem(dt, v) == IF dt.kind = "u" THEN << v % 256 >> ELSE U32LE(F32Bits(v))

\* the value of the element of type dt stored in bytes bs (an integer, or -1
\* for a binary32 pattern that is no integer of 0..255)
DecodeElem(dt, bs) ==
    IF dt.kind = "u" THEN bs[1]
    ELSE LET bits == bs[1] + 256 * bs[2] + 65536 * bs[3] + 16777216 * bs[4]
             e    == (bits \div 2^23) - 127
             m    == bits % 2^23
         IN  IF bits = 0 THEN 0
             ELSE IF e < 0 \/ e > 7 \/ m % 2^(23 - e) # 0 THEN -1
             ELSE 2^e + m \div 2^(23 - e)

-----------------------------------------------------------------------------
(* numpy: shapes, indices, broadcasting.                                   *)

\* the multi-index (0-based, row-major) of flat index j in an array of the shape
RECURSIVE Unflatten(_, _)
Unflatten(shape, j) ==
    IF shape = <<>> THEN <<>>
    ELSE LET inner == Product(Tail(shape))
         IN  << j \div inner >> \o Unflatten(Tail(shape), j % inner)

\* the flat index (0-based, row-major) of a multi-index
RECURSIVE FlatIndex(_, _)
FlatIndex(shape, ix) ==
    IF shape = <<>> THEN 0
    ELSE Head(ix) * Product(Tail(shape)) + FlatIndex(Tail(shape), Tail(ix))

\* PyArray_AssignArray: unit axes are stripped from the left of src while src
\* has more axes than dst
RECURSIVE StripUnitAxes(_, _)
StripUnitAxes(src, n) ==
    IF Len(src) > n /\ Head(src) = 1 THEN StripUnitAxes(Tail(src), n) ELSE src

\* (faulty variant of Broadcastable: the leading axis of src is not compared)
BroadcastableButLeadingAxis(src, dst) ==
    LET s == StripUnitAxes(src, Len(dst))
        k == Len(dst) - Len(s)
    IN  /\ k >= 0
        /\ \A d \in 2..Len(s) : s[d] = dst[k + d] \/ s[d] = 1

\* whether np.copyto(dst, src) accepts the shapes: src broadcasts to dst
Broadcastable(src, dst) ==
    LET s == StripUnitAxes(src, Len(dst))
        k == Len(dst) - Len(s)
    IN  /\ k >= 0
        /\ \A d \in 1..Len(s) : s[d] = dst[k + d] \/ s[d] = 1

\* the flat index in src of the element np.copyto stores at flat index j of dst
BroadcastSource(src, dst, j) ==
    LET s  == StripUnitAxes(src, Len(dst))
        k  == Len(dst) - Len(s)
        ix == Unflatten(dst, j)
    IN  FlatIndex(s, [d \in 1..Len(s) |-> IF s[d] = 1 THEN 0 ELSE ix[k + d]])

-----------------------------------------------------------------------------
(* The shared-memory block as its creator lays it out:                     *)
(* [u32 rank][rank x u32 dims][16-byte NUL-padded dtype name][1 byte       *)
(* endianness][payload][slack].                                            *)

NameBytes(dtype) == IF dtype = "uint8" THEN U8Name ELSE F32Name

\* ASCII codes of the endianness markers "<" and ">"
EndianByte(e) == IF e = "<" THEN 60 ELSE 62

MkBlock(h, slack) ==
    LET name    == NameBytes(h.dtype)
        nbytes  == Product(h.shape) * NpDtype(name).itemsize
    IN  U32LE(h.rank)
        \o Concat([d \in 1..h.rank |-> U32LE(h.shape[d])])
        \o name \o [p \in 1..(DtypeFieldLen - Len(name)) |-> 0]
        \o << EndianByte(h.endian) >>
        \o [p \in 1..nbytes |-> 170 + (p % 16)]
        \o [p \in 1..slack |-> 85]

\* the shapes a block may declare: FrameRank-1 .. FrameRank+1 axes, the
\* trailing one Channels or Channels-1 long
DeclShapes ==
    UNION { { lead \o << c >> : lead \in [1..n -> 1..MaxDim], c \in {Channels - 1, Channels} }
            : n \in (FrameRank - 2)..FrameRank }

Headers ==
    { [rank |-> Len(s), shape |-> s, dtype |-> t, endian |-> e] :
        s \in DeclShapes, t \in {"uint8", "float32"}, e \in {"<", ">"} }

-----------------------------------------------------------------------------
(* ShadertoyRenderer.create_numpy_view                                     *)

\* np.ndarray((1,), dtype=np.uint32, buffer=buf, offset=off)[0]
ReadU32(buf, off) ==
    buf[off + 1] + 256 * buf[off + 2] + 65536 * buf[off + 3] + 16777216 * buf[off + 4]

\* bytes.decode('ascii').strip('\x00'): NULs dropped at both ends
RECURSIVE StripLeft(_)
StripLeft(bs) == IF bs # <<>> /\ Head(bs) = 0 THEN StripLeft(Tail(bs)) ELSE bs

RECURSIVE StripRight(_)
StripRight(bs) ==
    IF bs # <<>> /\ bs[Len(bs)] = 0 THEN StripRight(SubSeq(bs, 1, Len(bs) - 1)) ELSE bs

StripNul(bs) == StripRight(StripLeft(bs))

\* (faulty variant of MetadataSize: the endianness byte is not counted)
MetadataSizeNoEndian(rank) == U32Size + rank * U32Size + DtypeFieldLen

\* metadata_size = 4 + rank*4 + 16 + 1
MetadataSize(rank) == U32Size + rank * U32Size + DtypeFieldLen + EndianFieldLen

\* The view: its shape, element type and the offset of its first element, with
\* the places the fields were read from.  np.ndarray raises TypeError when the
\* buffer is too small for offset + product(shape) * itemsize bytes.
CreateNumpyView(buf) ==
    LET rank        == ReadU32(buf, 0)
        shape       == [d \in 1..rank |-> ReadU32(buf, U32Size + (d - 1) * U32Size)]
        dtype_bytes == Slice(buf, 4 + rank * 4, 20 + rank * 4)
        dtype_str   == StripNul(dtype_bytes)
        endian      == Slice(buf, 20 + rank * 4, 21 + rank * 4)
        dt          == NpDtype(dtype_str)
        off         == MetadataSize(rank)
    IN  [ ok       |-> dt.kind # "TypeError"
                       /\ off + Product(shape) * dt.itemsize <= Len(buf),
          shape    |-> shape,
          dtype    |-> dt,
          name     |-> dtype_str,
          endian   |-> endian,
          offset   |-> off,
          size     |-> Product(shape) ]

-----------------------------------------------------------------------------
(* ShadertoyRenderer.render_to_shared_memory                               *)

\* A frame as render_frame returns it: shape (h, w, 4), uint8, row-major.  The
\* values are all different within a frame, so a misplaced element shows.
MkFrame(h, w, seed) ==
    [ shape |-> << h, w, Channels >>,
      data  |-> [j \in 1..(h * w * Channels) |-> (seed + 5 * (j - 1)) % 256] ]

Frames == { MkFrame(h, w, seed) : h \in 1..MaxDim, w \in 1..MaxDim, seed \in {3, 60} }

NoFrame == [shape |-> <<>>, data |-> <<>>]

\* the index list of frame_array[..., [2, 1, 0, 3]] (0-based)
ChannelOrder == << 2, 1, 0, 3 >>

\* (faulty variant of ReorderChannels: the channels are left in place)
ReorderChannelsIdentity(f) == f

\* frame_array[..., [2, 1, 0, 3]]: a new array, the trailing axis reindexed
ReorderChannels(f) ==
    LET c == f.shape[Len(f.shape)]
        n == Len(ChannelOrder)
    IN  [ shape |-> [d \in 1..Len(f.shape) |-> IF d = Len(f.shape) THEN n ELSE f.shape[d]],
          data  |-> [j \in 1..((Len(f.data) \div c) * n) |->
                        f.data[((j - 1) \div n) * c + ChannelOrder[((j - 1) % n) + 1] + 1]] ]

\* np.copyto(shared_array, frame_array): the buffer after the copy.  Element j
\* of the view takes the bytes offset + j*itemsize .. offset + (j+1)*itemsize - 1.
CopyTo(buf, view, src) ==
    LET sz   == view.dtype.itemsize
        elem == [j \in 0..(view.size - 1) |->
                    EncodeElem(view.dtype,
                               src.data[BroadcastSource(src.shape, view.shape, j) + 1])]
    IN  SubSeq(buf, 1, view.offset)
        \o Concat([j \in 1..view.size |-> elem[j - 1]])
        \o SubSeq(buf, view.offset + view.size * sz + 1, Len(buf))

\* One call, on a block no call has written yet: f is the frame
\* self.render_frame returns (uint8, which np.copyto casts to either element
\* type of the model under its default casting='same_kind').  The view is
\* made after the frame is rendered and reordered; a refused copy leaves the
\* buffer as it was.
RenderToSharedMemory(f) ==
    /\ shmResult = "none"
    /\ \E frame_array \in {ReorderChannels(f)}, shared_array \in {CreateNumpyView(shm)} :
        /\ frame' = f
        /\ shmPre' = shm
        /\ IF ~shared_array.ok
           THEN shmResult' = "TypeError" /\ shm' = shm
           ELSE IF ~Broadcastable(frame_array.shape, shared_array.shape)
           THEN shmResult' = "ValueError" /\ shm' = shm
           ELSE shmResult' = "ok" /\ shm' = CopyTo(shm, shared_array, frame_array)
        /\ UNCHANGED hdr
        /\ UNCHANGED <<seqVars, texVars>>

-----------------------------------------------------------------------------
(* Rationals <<n, d>> with d > 0, in lowest terms: the model's floats.     *)

RECURSIVE Gcd(_, _)
Gcd(a, b) == IF b = 0 THEN a ELSE Gcd(b, a % b)

Abs(a) == IF a < 0 THEN -a ELSE a

Rat(n, d) ==
    LET g == Gcd(Abs(n), Abs(d))
        sgn == IF d < 0 THEN -1 ELSE 1
    IN  << sgn * (n \div g), sgn * (d \div g) >>

RAdd(a, b) == Rat(a[1] * b[2] + b[1] * a[2], a[2] * b[2])
RSub(a, b) == Rat(a[1] * b[2] - b[1] * a[2], a[2] * b[2])
RMul(a, b) == Rat(a[1] * b[1], a[2] * b[2])
\* 1.0 / a, a # 0
RInv(a) == Rat(a[2], a[1])

\* int(a): truncation toward zero
IntOf(a) == IF a[1] >= 0 THEN a[1] \div a[2] ELSE -((-a[1]) \div a[2])

-----------------------------------------------------------------------------
(* ShadertoyRenderer.render_frame_sequence                                 *)

NeutralMouse == << 0, 0, 0, 0 >>

\* a mouse path of n entries, all different
MkPath(n) == [j \in 1..n |-> << j, 10 + j, 0, 0 >>]

SeqInputs ==
    [ start_time : { Rat(n, 2) : n \in 0..MaxTime },
      end_time   : { Rat(n, 2) : n \in 0..MaxTime },
      fps        : { Rat(f, 1) : f \in 0..MaxFps },
      mouse_path : {None} \cup { Some(MkPath(n)) : n \in 0..MaxPath } ]

\* Python truth value of mouse_path: None and the empty list are false
Truthy(mouse_path) == mouse_path.some /\ mouse_path.val # <<>>

\* (faulty variant of FrameCount: rounded up)
FrameCountCeil(start_time, end_time, fps) ==
    LET x == RMul(RSub(end_time, start_time), fps)
    IN  IF x[1] % x[2] = 0 THEN IntOf(x) ELSE IntOf(x) + 1

\* frame_count = int((end_time - start_time) * fps)
FrameCount(start_time, end_time, fps) == IntOf(RMul(RSub(end_time, start_time), fps))

\* current_time = start_time + (i * time_delta)
CurrentTime(start_time, i, delta) == RAdd(start_time, RMul(Rat(i, 1), delta))

\* (faulty variant of MousePos: an index past the end reads the last entry)
MousePosClamped(mouse_path, i) ==
    IF Truthy(mouse_path)
    THEN IF i < Len(mouse_path.val)
         THEN [raised |-> FALSE, val |-> mouse_path.val[i + 1]]
         ELSE [raised |-> FALSE, val |-> mouse_path.val[Len(mouse_path.val)]]
    ELSE [raised |-> FALSE, val |-> NeutralMouse]

\* mouse_pos = mouse_path[i] if mouse_path else (0.0, 0.0, 0.0, 0.0);
\* list[i] raises IndexError for i >= len(list)
MousePos(mouse_path, i) ==
    IF Truthy(mouse_path)
    THEN IF i < Len(mouse_path.val)
         THEN [raised |-> FALSE, val |-> mouse_path.val[i + 1]]
         ELSE [raised |-> TRUE, val |-> <<>>]
    ELSE [raised |-> FALSE, val |-> NeutralMouse]

\* frame_count, time_delta and frames are set; 1.0 / fps raises when fps is 0
SeqEnter ==
    /\ seqPc = "start"
    /\ frame_count' = FrameCount(seqArgs.start_time, seqArgs.end_time, seqArgs.fps)
    /\ IF seqArgs.fps[1] = 0
       THEN seqPc' = "ZeroDivisionError" /\ UNCHANGED time_delta
       ELSE seqPc' = "loop" /\ time_delta' = RInv(seqArgs.fps)
    /\ UNCHANGED <<seqArgs, idx, calls>>
    /\ UNCHANGED <<shmVars, texVars>>

\* one iteration of "for i in range(frame_count)"
SeqIterate ==
    /\ seqPc = "loop"
    /\ idx < frame_count
    /\ LET current_time == CurrentTime(seqArgs.start_time, idx, time_delta)
           mouse_pos    == MousePos(seqArgs.mouse_path, idx)
       IN  IF mouse_pos.raised
           THEN seqPc' = "IndexError" /\ UNCHANGED <<idx, calls>>
           ELSE /\ calls' = Append(calls, [ time_float |-> current_time,
                                            time_delta |-> time_delta,
                                            frame      |-> idx,
                                            framerate  |-> seqArgs.fps,
                                            mouse_pos  |-> mouse_pos.val ])
                /\ idx' = idx + 1
                /\ UNCHANGED seqPc
    /\ UNCHANGED <<seqArgs, frame_count, time_delta>>
    /\ UNCHANGED <<shmVars, texVars>>

\* the loop is over: return frames
SeqReturn ==
    /\ seqPc = "loop"
    /\ idx >= frame_count
    /\ seqPc' = "returned"
    /\ UNCHANGED <<seqArgs, frame_count, time_delta, idx, calls>>
    /\ UNCHANGED <<shmVars, texVars>>

-----------------------------------------------------------------------------
(* UpdatableChannelTexture                                                 *)

\* An image: a sequence of rows, each a sequence of pixels; a pixel value
\* stands for its four channels.  shape[0] is the height, shape[1] the width.
Height(a) == Len(a)
Width(a) == Len(a[1])

\* an h x w image whose pixels are all different
MkArr(h, w, seed) == [r \in 1..h |-> [c \in 1..w |-> seed + (r - 1) * w + (c - 1)]]

\* np.zeros((height, width, 4)) and np.full((height, width, 4), 255)
Filled(h, w, v) == [r \in 1..h |-> [c \in 1..w |-> v]]

Images == { MkArr(h, w, seed) : h \in 1..MaxTexDim, w \in 1..MaxTexDim, seed \in {10, 20} }

\* (width, height) pairs
Sizes == (1..MaxTexDim) \X (1..MaxTexDim)

Formats == {"rgba8unorm", "rgba32float"}

\* the handle device.create_texture returns at its n-th call
Handle(n) == Some(<< n >>)

NoOp == [name |-> "none", outcome |-> "none", arg |-> None, wrote |-> FALSE, createdNow |-> FALSE]

\* new_data[::-1, :, :]: the rows in reverse order
Flip(a) == [r \in 1..Len(a) |-> a[Len(a) + 1 - r]]

\* ShadertoyChannelTexture.__init__ (wgpu_shadertoy): keeps the array as self.data
ParentInit(d) == d

\* __init__(data, size, format)
Construct(d, size, fmt) ==
    /\ texPc = "new"
    /\ ctorArgs' = [data |-> d, size |-> size, format |-> fmt]
    /\ IF ~d.some /\ ~size.some
       THEN /\ texPc' = "ctor_failed"
            /\ UNCHANGED <<data, format, texture>>
       ELSE /\ format' = fmt
            /\ data' = ParentInit(
                   IF size.some
                   THEN IF fmt = "rgba32float"
                        THEN Filled(size.val[2], size.val[1], 0)
                        ELSE Filled(size.val[2], size.val[1], 255)
                   ELSE d.val)
            /\ texture' = None
            /\ texPc' = "live"
    /\ UNCHANGED <<gpu, created, lastOp, pre, lastUpdate>>
    /\ UNCHANGED <<shmVars, seqVars>>

\* (faulty variant of NotBound: the check is missing)
NotBoundNever(t) == FALSE

\* if self._texture is None  (update)
NotBound(t) == ~t.some

\* (faulty variant of SizeMismatch: only the width is compared)
SizeMismatchWidthOnly(new_data, d) == Width(new_data) # Width(d)

\* new_data.shape[1] != self.data.shape[1] or new_data.shape[0] != self.data.shape[0]
SizeMismatch(new_data, d) == Width(new_data) # Width(d) \/ Height(new_data) # Height(d)

\* (faulty variant of NeedsCreate: a texture is created at every bind)
NeedsCreateAlways(t) == TRUE

\* if self._texture is None  (bind_texture)
NeedsCreate(t) == ~t.some

\* update(new_data)
Update(new_data) ==
    /\ texPc = "live"
    /\ pre' = [texture |-> texture, gpu |-> gpu, data |-> data]
    /\ IF NotBound(texture)
       THEN /\ lastOp' = [name |-> "update", outcome |-> "RuntimeError", arg |-> Some(new_data),
                          wrote |-> FALSE, createdNow |-> FALSE]
            /\ UNCHANGED <<gpu, lastUpdate>>
       ELSE IF SizeMismatch(new_data, data)
       THEN /\ lastOp' = [name |-> "update", outcome |-> "ValueError", arg |-> Some(new_data),
                          wrote |-> FALSE, createdNow |-> FALSE]
            /\ UNCHANGED <<gpu, lastUpdate>>
       ELSE /\ gpu' = Some(Flip(new_data))
            /\ lastUpdate' = Some(new_data)
            /\ lastOp' = [name |-> "update", outcome |-> "ok", arg |-> Some(new_data),
                          wrote |-> TRUE, createdNow |-> FALSE]
    /\ UNCHANGED <<texPc, ctorArgs, data, format, texture, created>>
    /\ UNCHANGED <<shmVars, seqVars>>

\* bind_texture(device): the texture is created when there is none; self.data
\* is written to it at every call
BindTexture ==
    /\ texPc = "live"
    /\ pre' = [texture |-> texture, gpu |-> gpu, data |-> data]
    /\ IF NeedsCreate(texture)
       THEN texture' = Handle(created + 1) /\ created' = created + 1
       ELSE UNCHANGED <<texture, created>>
    /\ gpu' = Some(data)
    /\ lastOp' = [name |-> "bind_texture", outcome |-> "ok", arg |-> None,
                  wrote |-> TRUE, createdNow |-> NeedsCreate(texture)]
    /\ UNCHANGED <<texPc, ctorArgs, data, format, lastUpdate>>
    /\ UNCHANGED <<shmVars, seqVars>>

-----------------------------------------------------------------------------
(* The specifications.                                                     *)

ShmAtRest ==
    /\ hdr = [rank |-> 0, shape |-> <<>>, dtype |-> "uint8", endian |-> "<"]
    /\ shm = <<>>
    /\ frame = NoFrame
    /\ shmPre = <<>>
    /\ shmResult = "none"

SeqAtRest ==
    /\ seqArgs = [start_time |-> Rat(0, 1), end_time |-> Rat(0, 1), fps |-> Rat(1, 1),
                  mouse_path |-> None]
    /\ seqPc = "start"
    /\ frame_count = 0
    /\ time_delta = Rat(0, 1)
    /\ idx = 0
    /\ calls = <<>>

TexAtRest ==
    /\ texPc = "new"
    /\ ctorArgs = [data |-> None, size |-> None, format |-> "rgba8unorm"]
    /\ data = <<>>
    /\ format = "rgba8unorm"
    /\ texture = None
    /\ gpu = None
    /\ created = 0
    /\ lastOp = NoOp
    /\ pre = [texture |-> None, gpu |-> None, data |-> <<>>]
    /\ lastUpdate = None

\* a block some creator allocated and wrote the header of, with or without a
\* spare byte after the payload
InitShm ==
    /\ hdr \in Headers
    /\ \E slack \in {0, 1} : shm = MkBlock(hdr, slack)
    /\ frame = NoFrame
    /\ shmPre = shm
    /\ shmResult = "none"
    /\ SeqAtRest
    /\ TexAtRest

NextShm == \E f \in Frames : RenderToSharedMemory(f)

SpecShm == InitShm /\ [][NextShm]_vars

\* a call of render_frame_sequence with arguments from SeqInputs
InitSeq ==
    /\ seqArgs \in SeqInputs
    /\ seqPc = "start"
    /\ frame_count = 0
    /\ time_delta = Rat(0, 1)
    /\ idx = 0
    /\ calls = <<>>
    /\ ShmAtRest
    /\ TexAtRest

NextSeq ==
    \/ SeqEnter
    \/ SeqIterate
    \/ SeqReturn

SpecSeq == InitSeq /\ [][NextSeq]_vars

InitTex ==
    /\ TexAtRest
    /\ ShmAtRest
    /\ SeqAtRest

NextTex ==
    \/ \E d \in {None} \cup { Some(a) : a \in Images },
          size \in {None} \cup { Some(sz) : sz \in Sizes }, fmt \in Formats :
            Construct(d, size, fmt)
    \/ BindTexture
    \/ \E new_data \in Images : Update(new_data)

SpecTex == InitTex /\ [][NextTex]_vars

-----------------------------------------------------------------------------
(* Claims about the shared-memory transport (SpecShm).                     *)

\* the bytes of element j (0-based) of the payload of a block with header h
PayloadElem(buf, h, j) ==
    LET sz  == IF h.dtype = "uint8" THEN 1 ELSE 4
        off == 4 + h.rank * 4 + 16 + 1
    IN  SubSeq(buf, off + j * sz + 1, off + (j + 1) * sz)

\* C1: after a successful render_to_shared_memory on a block that declares the
\* frame's shape, element (r, c, k) of the payload, which starts at offset
\* 4 + rank*4 + 16 + 1, is element (r, c, [2,1,0,3][k]) of the rendered frame,
\* and every byte outside the payload is as it was before the call.
C1_PayloadHoldsReorderedFrame ==
    (shmResult = "ok" /\ hdr.shape = frame.shape) =>
        LET h   == frame.shape[1]
            w   == frame.shape[2]
            sz  == IF hdr.dtype = "uint8" THEN 1 ELSE 4
            off == 4 + hdr.rank * 4 + 16 + 1
            dt  == NpDtype(NameBytes(hdr.dtype))
        IN  /\ Len(shm) = Len(shmPre)
            /\ \A r \in 0..(h - 1), c \in 0..(w - 1), k \in 0..3 :
                  DecodeElem(dt, PayloadElem(shm, hdr, (r * w + c) * 4 + k))
                    = frame.data[(r * w + c) * 4 + << 2, 1, 0, 3 >>[k + 1] + 1]
            /\ \A p \in 1..Len(shm) :
                  (p <= off \/ p > off + h * w * 4 * sz) => shm[p] = shmPre[p]

\* a successful call on a float32 block of the frame's shape, two rows high,
\* with a spare byte after the payload
C1_Witness ==
    /\ shmResult = "ok"
    /\ hdr.shape = frame.shape
    /\ frame.shape[1] = 2
    /\ hdr.dtype = "float32"
    /\ Len(shm) > 4 + hdr.rank * 4 + 16 + 1 + Product(hdr.shape) * 4
    /\ shm # shmPre

\* a frame axis fits the declared shape when, with the two shapes aligned at
\* their trailing axes, it is as long as the declared axis or 1 long; an axis
\* with no declared counterpart must be 1 long
AxisFits(fshape, declared, d) ==
    LET e == Len(declared) - Len(fshape) + d
    IN  IF e >= 1 THEN fshape[d] = declared[e] \/ fshape[d] = 1 ELSE fshape[d] = 1

\* C2 as stated: the call fails whenever the frame's shape differs from the
\* declared shape.
C2_FailsWheneverShapesDiffer ==
    (shmResult # "none" /\ frame.shape # hdr.shape) => shmResult # "ok"

\* C2 as amended: the call fails whenever some axis of the frame does not fit
\* the declared shape (the frame cannot be broadcast to it).
C2_FailsUnlessBroadcastable ==
    (shmResult # "none" /\ \E d \in 1..Len(frame.shape) : ~AxisFits(frame.shape, hdr.shape, d))
        => shmResult = "ValueError" /\ shm = shmPre

\* a call that failed on a block of the frame's rank and channel count
C2_Witness ==
    /\ shmResult = "ValueError"
    /\ hdr.rank = 3
    /\ hdr.shape[3] = 4
    /\ frame.shape # hdr.shape

\* C9: create_numpy_view reads the shape from the rank 4-byte fields at offset
\* 4, the dtype name from the 16 bytes at offset 4 + rank*4 and the endianness
\* byte at offset 20 + rank*4; the view starts at offset 4 + rank*4 + 16 + 1,
\* has the declared shape and product(shape) elements.
C9_ViewMatchesHeader ==
    LET v == CreateNumpyView(shm)
    IN  /\ v.ok
        /\ v.shape = hdr.shape
        /\ v.name = NameBytes(hdr.dtype)
        /\ v.dtype.itemsize = (IF hdr.dtype = "uint8" THEN 1 ELSE 4)
        /\ v.endian = << EndianByte(hdr.endian) >>
        /\ v.offset = 4 + hdr.rank * 4 + 16 + 1
        /\ v.size = Product(hdr.shape)

\* a rank-4 float32 block a call has parsed and written
C9_Witness ==
    /\ shmResult = "ok"
    /\ hdr.rank = 4
    /\ hdr.dtype = "float32"
    /\ hdr.endian = ">"
    /\ Product(hdr.shape) >= 16

-----------------------------------------------------------------------------
(* Claims about render_frame_sequence (SpecSeq).                           *)

SeqTerminated == seqPc \in {"returned", "IndexError", "ZeroDivisionError"}

\* floor((end_time - start_time) * fps), from the arguments
FloorFrameCount ==
    LET s == seqArgs.start_time
        e == seqArgs.end_time
        f == seqArgs.fps
    IN  ((e[1] * s[2] - s[1] * e[2]) * f[1]) \div (e[2] * s[2] * f[2])

\* the k-th render_frame call (k from 1) has frame index k-1, time
\* start_time + (k-1)/fps, time_delta 1/fps, framerate fps, mouse (0,0,0,0)
CallAsClaimed(k) ==
    LET s == seqArgs.start_time
        f == seqArgs.fps
        c == calls[k]
    IN  /\ c.frame = k - 1
        /\ c.time_float[1] * (s[2] * f[1]) = (s[1] * f[1] + (k - 1) * f[2] * s[2]) * c.time_float[2]
        /\ c.time_delta[1] * f[1] = c.time_delta[2] * f[2]
        /\ c.framerate = f
        /\ c.mouse_pos = << 0, 0, 0, 0 >>

\* C8 as stated: with no mouse_path (and fps # 0, for 1/fps to exist) the call
\* returns after exactly floor((end_time - start_time) * fps) render calls,
\* each as claimed.
C8_FloorManyCalls ==
    (SeqTerminated /\ ~seqArgs.mouse_path.some /\ seqArgs.fps[1] # 0) =>
        /\ seqPc = "returned"
        /\ Len(calls) = FloorFrameCount
        /\ \A k \in 1..Len(calls) : CallAsClaimed(k)

\* C8 as amended: with no mouse_path and fps # 0 the call returns after
\* exactly max(0, floor((end_time - start_time) * fps)) render calls, each as
\* claimed.
C8_NonNegativeFloorManyCalls ==
    (SeqTerminated /\ ~seqArgs.mouse_path.some /\ seqArgs.fps[1] # 0) =>
        /\ seqPc = "returned"
        /\ Len(calls) = Max(0, FloorFrameCount)
        /\ \A k \in 1..Len(calls) : CallAsClaimed(k)

\* a returned call of three frames that did not start at time 0
C8_Witness ==
    /\ seqPc = "returned"
    /\ ~seqArgs.mouse_path.some
    /\ Len(calls) = 3
    /\ seqArgs.start_time[1] # 0
    /\ seqArgs.fps[1] = 3

\* C7 as stated: a mouse_path that is given and shorter than frame_count, of
\* any length including 0, makes the call fail with an out-of-range access
\* when the loop reaches index len(mouse_path).
C7_ShortPathFails ==
    (SeqTerminated /\ seqArgs.mouse_path.some
       /\ Len(seqArgs.mouse_path.val) < FloorFrameCount) =>
        /\ seqPc = "IndexError"
        /\ idx = Len(seqArgs.mouse_path.val)
        /\ Len(calls) = Len(seqArgs.mouse_path.val)

\* C7 as amended: a mouse_path of at least one entry and shorter than
\* frame_count makes the call fail so.
C7_ShortNonEmptyPathFails ==
    (SeqTerminated /\ seqArgs.mouse_path.some
       /\ Len(seqArgs.mouse_path.val) >= 1
       /\ Len(seqArgs.mouse_path.val) < FloorFrameCount) =>
        /\ seqPc = "IndexError"
        /\ idx = Len(seqArgs.mouse_path.val)
        /\ Len(calls) = Len(seqArgs.mouse_path.val)

\* a call that failed at index 2 of a two-entry path
C7_Witness ==
    /\ seqPc = "IndexError"
    /\ Len(seqArgs.mouse_path.val) = 2
    /\ idx = 2
    /\ Len(calls) = 2

-----------------------------------------------------------------------------
(* Claims about UpdatableChannelTexture (SpecTex).                         *)

\* new_data of the last call has the width and height of self.data
ArgFits ==
    /\ Len(lastOp.arg.val) = Len(pre.data)
    /\ Len(lastOp.arg.val[1]) = Len(pre.data[1])

\* C3: update on an adapter that was never bound fails with the
\* not-initialized error, writes nothing to the GPU and leaves the adapter
\* Uninitialized; update on a bound adapter with data of the texture's width
\* and height succeeds and leaves it Bound.
C3_UpdateNeedsBinding ==
    lastOp.name = "update" =>
        /\ ~pre.texture.some =>
              /\ lastOp.outcome = "RuntimeError"
              /\ ~lastOp.wrote
              /\ gpu = pre.gpu
              /\ ~texture.some
        /\ (pre.texture.some /\ ArgFits) =>
              /\ lastOp.outcome = "ok"
              /\ texture = pre.texture

\* both cases of C3 are reached: this one is the failed update on a new adapter
C3_Witness ==
    /\ lastOp.name = "update"
    /\ ~pre.texture.some
    /\ lastOp.outcome = "RuntimeError"
    /\ Len(lastOp.arg.val) = Len(data)
    /\ Len(lastOp.arg.val[1]) = Len(data[1])

\* C4: update on a bound adapter with data of another width or height fails
\* with the size-mismatch error and leaves the GPU texture's contents and the
\* adapter as they were.
C4_MismatchLeavesTexture ==
    (lastOp.name = "update" /\ pre.texture.some /\ ~ArgFits) =>
        /\ lastOp.outcome = "ValueError"
        /\ ~lastOp.wrote
        /\ gpu = pre.gpu
        /\ texture = pre.texture
        /\ data = pre.data

\* an update of the right width and the wrong height, refused after an
\* earlier update had succeeded
C4_Witness ==
    /\ lastOp.name = "update"
    /\ lastOp.outcome = "ValueError"
    /\ pre.texture.some
    /\ Len(lastOp.arg.val[1]) = Len(data[1])
    /\ Len(lastOp.arg.val) # Len(data)
    /\ lastUpdate.some

\* C5: the GPU texture is created exactly once, by the first bind_texture;
\* every later bind_texture keeps the same handle, and a bound adapter stays
\* bound.
C5_TextureCreatedOnce ==
    /\ created <= 1
    /\ texture.some <=> created = 1
    /\ pre.texture.some => texture = pre.texture /\ ~lastOp.createdNow
    /\ (lastOp.name = "bind_texture" /\ ~pre.texture.some) => lastOp.createdNow /\ texture.some
    /\ lastOp.name = "update" => texture = pre.texture

\* a second bind_texture, after an update
C5_Witness ==
    /\ lastOp.name = "bind_texture"
    /\ pre.texture.some
    /\ lastUpdate.some
    /\ created = 1

\* C6: a construction that supplies both data and size is not accepted.
C6_BothRejected ==
    (ctorArgs.data.some /\ ctorArgs.size.some) => texPc # "live"

\* C10: after a successful update the texture holds the rows of that update's
\* data in reverse order until the next successful update, whatever
\* bind_texture calls come in between.
C10_UpdateSurvivesBind ==
    lastUpdate.some =>
        /\ gpu.some
        /\ gpu.val = [r \in 1..Len(lastUpdate.val) |->
                         lastUpdate.val[Len(lastUpdate.val) + 1 - r]]

=============================================================================
